---- MODULE Spec2Model ----
(***************************************************************************)
(* Model of packages/api/scripts/create-wrangler-config.py: one run of     *)
(* main(), which resolves D1_DATABASE_ID, substitutes it into              *)
(* wrangler.example.toml, normalises the database_id line, writes          *)
(* wrangler.toml and verifies it.                                          *)
(*                                                                         *)
(* A text is a sequence of one-character strings, so that find, replace,   *)
(* strip, splitlines and the regular expressions are computed character by *)
(* character as Python computes them.                                      *)
(***************************************************************************)
EXTENDS Integers, Sequences, FiniteSets, TLC

\* ------------------------------------------------------------------ bounds
\* greatest number of lines of a generated template body
MaxLines == 2
\* greatest number of line terminators a generated template ends with
MaxTrail == 3

\* ------------------------------------------------------- character classes
\* str.strip() and \s: the whitespace of the modelled alphabet
SpaceChars == {" ", "\t", "\n", "\r", "\f"}
\* str.splitlines() boundaries of the modelled alphabet
LineBreakChars == {"\n", "\r", "\f"}
HexChars == {"0","1","2","3","4","5","6","7","8","9",
             "a","b","c","d","e","f","A","B","C","D","E","F"}
IsSpace(c) == c \in SpaceChars

\* ---------------------------------------------------------------- literals
placeholder == <<"$","{","D","1","_","D","A","T","A","B","A","S","E","_","I","D","}">>
KeyPrefix == <<"d","a","t","a","b","a","s","e","_","i","d"," ","="," ">>
KeyName == <<"d","a","t","a","b","a","s","e","_","i","d">>
EmptyValueText == <<"d","a","t","a","b","a","s","e","_","i","d"," ","="," ","\"","\"">>
QuoteChar == "\""
LF == <<"\n">>

\* Optional[str]: None is the empty tuple, a string s is <<s>>
None == <<>>
Some(s) == <<s>>

SetMin(S) == CHOOSE x \in S : \A y \in S : x <= y
SetMax(S) == CHOOSE x \in S : \A y \in S : y <= x

\* ------------------------------------------------------- string primitives
\* p occurs in s at index i
OccursAt(s, p, i) ==
  /\ i >= 1
  /\ i + Len(p) - 1 <= Len(s)
  /\ \A k \in 1..Len(p) : s[i + k - 1] = p[k]

\* p in s
Contains(s, p) == \E i \in 1..(Len(s) + 1) : OccursAt(s, p, i)

\* s.startswith(p)
StartsWith(s, p) == OccursAt(s, p, 1)

\* s.endswith(p)
EndsWith(s, p) == OccursAt(s, p, Len(s) - Len(p) + 1)

\* indices >= i at which p occurs in s
OccurrencesFrom(s, p, i) == {j \in i..Len(s) : OccursAt(s, p, j)}

\* s.count(p): non-overlapping occurrences, scanned left to right
RECURSIVE CountFrom(_, _, _)
CountFrom(s, p, i) ==
  IF OccurrencesFrom(s, p, i) = {} THEN 0
  ELSE 1 + CountFrom(s, p, SetMin(OccurrencesFrom(s, p, i)) + Len(p))
Count(s, p) == CountFrom(s, p, 1)

\* s.replace(p, r) for a non-empty p: every non-overlapping occurrence,
\* left to right, the replacement text is not rescanned
RECURSIVE ReplaceFrom(_, _, _, _)
ReplaceFrom(s, p, r, i) ==
  IF OccurrencesFrom(s, p, i) = {} THEN SubSeq(s, i, Len(s))
  ELSE LET j == SetMin(OccurrencesFrom(s, p, i))
       IN SubSeq(s, i, j - 1) \o r \o ReplaceFrom(s, p, r, j + Len(p))
Replace(s, p, r) == ReplaceFrom(s, p, r, 1)

\* s.strip()
Strip(s) ==
  LET N == {i \in 1..Len(s) : ~IsSpace(s[i])}
  IN IF N = {} THEN <<>> ELSE SubSeq(s, SetMin(N), SetMax(N))

\* re.match(r"^(\s*)", line).group(1): the leading whitespace of a line
Indent(s) ==
  LET N == {i \in 1..Len(s) : ~IsSpace(s[i])}
  IN IF N = {} THEN s ELSE SubSeq(s, 1, SetMin(N) - 1)

\* s.splitlines(keepends=False): "\r\n" is one boundary, a final boundary
\* opens no further line, and "" has no lines
RECURSIVE SplitFrom(_, _)
SplitFrom(s, i) ==
  IF i > Len(s) THEN <<>>
  ELSE LET B == {j \in i..Len(s) : s[j] \in LineBreakChars}
       IN IF B = {} THEN <<SubSeq(s, i, Len(s))>>
          ELSE LET j == SetMin(B)
                   nxt == IF s[j] = "\r" /\ j < Len(s) /\ s[j + 1] = "\n"
                          THEN j + 2 ELSE j + 1
               IN <<SubSeq(s, i, j - 1)>> \o SplitFrom(s, nxt)
SplitLines(s) == SplitFrom(s, 1)

\* sep.join(ls)
RECURSIVE Join(_, _)
Join(ls, sep) ==
  IF Len(ls) = 0 THEN <<>>
  ELSE IF Len(ls) = 1 THEN ls[1]
  ELSE ls[1] \o sep \o Join(Tail(ls), sep)

\* open(..., newline=None).read(): universal newlines, "\r\n" and "\r"
\* are read as "\n"
RECURSIVE ReadFrom(_, _)
ReadFrom(s, i) ==
  LET R == {j \in i..Len(s) : s[j] = "\r"}
  IN IF R = {} THEN SubSeq(s, i, Len(s))
     ELSE LET j == SetMin(R)
          IN SubSeq(s, i, j - 1) \o LF \o
             ReadFrom(s, IF j < Len(s) /\ s[j + 1] = "\n" THEN j + 2 ELSE j + 1)
ReadText(s) == ReadFrom(s, 1)

\* ------------------------------------------------------ regular expressions
\* first index >= i of s that is not whitespace (Len(s) + 1 when none)
SkipSpaces(s, i) ==
  LET N == {j \in i..Len(s) : ~IsSpace(s[j])}
  IN IF N = {} THEN Len(s) + 1 ELSE SetMin(N)

\* index of the closing quote of a match of  database_id\s*=\s*"([^"]+)"
\* that starts at i, with the index of its opening quote; <<0, 0>> when the
\* pattern does not match at i.  \s* and [^"]+ are greedy, and the character
\* after each is outside the class, so the match at i is unique.
KeyMatchAt(s, i) ==
  IF ~OccursAt(s, KeyName, i) THEN <<0, 0>>
  ELSE LET e == SkipSpaces(s, i + Len(KeyName))
       IN IF e > Len(s) \/ s[e] # "=" THEN <<0, 0>>
          ELSE LET q == SkipSpaces(s, e + 1)
               IN IF q > Len(s) \/ s[q] # QuoteChar THEN <<0, 0>>
                  ELSE LET C == {j \in (q + 1)..Len(s) : s[j] = QuoteChar}
                       IN IF C = {} \/ SetMin(C) = q + 1 THEN <<0, 0>>
                          ELSE <<q, SetMin(C)>>

\* re.search(r'database_id\s*=\s*"([^"]+)"', s): group(1) of the leftmost
\* match, None when there is no match
KeySearch(s) ==
  LET M == {i \in 1..Len(s) : KeyMatchAt(s, i) # <<0, 0>>}
  IN IF M = {} THEN None
     ELSE LET m == KeyMatchAt(s, SetMin(M))
          IN Some(SubSeq(s, m[1] + 1, m[2] - 1))

\* re.compile(r'^\s*database_id\s*=\s*"[^"]+"\s*$', re.MULTILINE).search(s):
\* ^ is the start of s or the position after a "\n", $ is the end of s or the
\* position before a "\n"
FinalPatternFound(s) ==
  \E p \in 1..(Len(s) + 1) :
    /\ (p = 1 \/ s[p - 1] = "\n")
    /\ LET m == KeyMatchAt(s, SkipSpaces(s, p))
       IN /\ m # <<0, 0>>
          /\ \E e \in (m[2] + 1)..(Len(s) + 1) :
               /\ \A k \in (m[2] + 1)..(e - 1) : IsSpace(s[k])
               /\ (e = Len(s) + 1 \/ s[e] = "\n")

\* validate_database_id: 8-4-4-4-12 hex digits; without re.MULTILINE the $
\* also matches before one final "\n"
validate_database_id(db) ==
  LET n == IF Len(db) = 37 /\ db[37] = "\n" THEN 36 ELSE Len(db)
  IN /\ n = 36
     /\ \A i \in 1..36 :
          IF i \in {9, 14, 19, 24} THEN db[i] = "-" ELSE db[i] \in HexChars

\* ------------------------------------------------------------------ inputs
UuidEnv == <<"1","2","3","4","5","6","7","8","-","1","2","3","4","-","1","2","3","4","-","1","2","3","4","-","1","2","3","4","5","6","7","8","9","0","1","2">>
UuidLocal == <<"a","b","c","d","e","f","a","b","-","a","b","c","d","-","a","b","c","d","-","a","b","c","d","-","a","b","c","d","e","f","a","b","c","d","e","f">>

\* os.environ: D1_DATABASE_ID unset, or set to val
EnvUnset == [set |-> FALSE, val |-> <<>>]
EnvSet(v) == [set |-> TRUE, val |-> v]

\* secrets that reach the template stages
SecretEnvs ==
  { EnvSet(UuidEnv),
    EnvSet(<<"n","o","t","-","a","-","u","u","i","d">>),
    EnvSet(<<"a"," ","b">>),
    EnvSet(<<"a","\"","b">>),
    EnvSet(placeholder),
    EnvSet(<<"x","\n","y">>) }

EnvValues ==
  SecretEnvs \cup
  { EnvUnset,
    EnvSet(<<>>),
    EnvSet(<<" ">>),
    EnvSet(<<" ">> \o UuidEnv \o <<"\n">>) }

\* a file of the api directory: missing, present but unreadable, or text
MissingFile == [kind |-> "missing", text |-> <<>>]
UnreadableFile == [kind |-> "unreadable", text |-> <<>>]
TextFile(t) == [kind |-> "file", text |-> t]

\* a wrangler.toml.local that carries an id
LocalUuidFile == TextFile(<<"[","[","d","1","]","]","\n","d","a","t","a","b","a","s","e","_","i","d"," ","="," ","\"">> \o UuidLocal \o <<"\"","\n">>)

\* wrangler.toml.local
LocalFiles ==
  { MissingFile,
    UnreadableFile,
    LocalUuidFile,
    TextFile(<<"d","a","t","a","b","a","s","e","_","i","d","=","\""," "," ">> \o UuidLocal \o <<" ","\"","\r","\n">>),
    TextFile(<<"d","a","t","a","b","a","s","e","_","i","d"," ","="," ","\""," ","\"","\n">>),
    TextFile(<<"n","a","m","e"," ","="," ","\"","x","\"","\n">>) }

\* the lines a generated wrangler.example.toml is made of
LineKinds ==
  { <<"d","a","t","a","b","a","s","e","_","i","d"," ","="," ","\"","$","{","D","1","_","D","A","T","A","B","A","S","E","_","I","D","}","\"">>,
    <<" "," ","d","a","t","a","b","a","s","e","_","i","d"," ","="," ","\"","$","{","D","1","_","D","A","T","A","B","A","S","E","_","I","D","}","\""," "," ","#"," ","i","d">>,
    <<"d","a","t","a","b","a","s","e","_","i","d"," ","="," ","$","{","D","1","_","D","A","T","A","B","A","S","E","_","I","D","}">>,
    <<"d","a","t","a","b","a","s","e","_","i","d"," ","="," ","\"","f","\"">>,
    <<"d","a","t","a","b","a","s","e","_","i","d"," ","="," ","\"","\"">>,
    <<"d","a","t","a","b","a","s","e","_","i","d"," ","="," ","\""," ","\"">>,
    <<"n","a","m","e"," ","="," ","\"","$","{","D","1","_","D","A","T","A","B","A","S","E","_","I","D","}","\"">>,
    <<>> }

RECURSIVE Repeat(_, _)
Repeat(s, n) == IF n = 0 THEN <<>> ELSE s \o Repeat(s, n - 1)

\* every body of at most MaxLines lines, ended by at most MaxTrail "\n"
Templates ==
  { TextFile(Join(b, LF) \o Repeat(LF, t)) :
      b \in UNION {[1..n -> LineKinds] : n \in 0..MaxLines}, t \in 0..MaxTrail }

\* wrangler.example.toml of the runs that vary the secret's sources
CoreTemplates ==
  { MissingFile,
    UnreadableFile,
    TextFile(<<"[","[","d","1","]","]","\n"," "," ","d","a","t","a","b","a","s","e","_","i","d"," ","="," ","\"","$","{","D","1","_","D","A","T","A","B","A","S","E","_","I","D","}","\"","\n">>),
    TextFile(<<"d","a","t","a","b","a","s","e","_","i","d"," ","="," ","\"","$","{","D","1","_","D","A","T","A","B","A","S","E","_","I","D","}","\""," ","\r","\n","n","a","m","e"," ","="," ","\"","x","\"","\r","\n","\r","\n","\r","\n">>),
    TextFile(<<"n","a","m","e"," ","="," ","\"","$","{","D","1","_","D","A","T","A","B","A","S","E","_","I","D","}","\"","\n","d","a","t","a","b","a","s","e","_","i","d"," ","="," ","\"","f","\"","\n">>),
    TextFile(<<"[","[","d","1","]","]","\n","d","a","t","a","b","a","s","e","_","i","d"," ","="," ","\"","f","\"","\n">>) }

\* wrangler.toml before the run
AbsentOut == [exists |-> FALSE, text |-> <<>>]
StaleOut == [exists |-> TRUE, text |-> <<"d","a","t","a","b","a","s","e","_","i","d"," ","="," ","\"","o","l","d","\"","\n">>]
OldOutputs == {AbsentOut, StaleOut}

\* ------------------------------------------------------------------- state
VARIABLES
  env,                  \* os.environ entry D1_DATABASE_ID
  localFile,            \* wrangler.toml.local
  tmplFile,             \* wrangler.example.toml
  outFile,              \* wrangler.toml
  pc,                   \* position of main()
  exitCode,             \* process exit status
  err,                  \* the fatal diagnostic printed, "" when none
  warned,               \* the warnings printed
  db_id,                \* Optional[str]
  source,
  content,
  substituted_content,
  lines,
  output,
  final_content

vars == <<env, localFile, tmplFile, outFile, pc, exitCode, err, warned, db_id,
          source, content, substituted_content, lines, output, final_content>>

inputs == <<env, localFile, tmplFile>>

Init ==
  /\ \/ /\ env \in EnvValues
        /\ localFile \in LocalFiles
        /\ tmplFile \in CoreTemplates
        /\ outFile \in OldOutputs
     \/ /\ \/ env \in SecretEnvs /\ localFile = MissingFile
           \/ env = EnvUnset /\ localFile = LocalUuidFile
        /\ tmplFile \in Templates
        /\ outFile = AbsentOut
  /\ pc = "resolve"
  /\ exitCode = 0
  /\ err = ""
  /\ warned = {}
  /\ db_id = None
  /\ source = ""
  /\ content = <<>>
  /\ substituted_content = <<>>
  /\ lines = <<>>
  /\ output = <<>>
  /\ final_content = <<>>

\* sys.exit(1) after printing the diagnostic e
Fail(e) ==
  /\ pc' = "exit"
  /\ exitCode' = 1
  /\ err' = e

\* `not x` of an Optional[str]: None and "" are falsy
Falsy(o) == o = None \/ o[1] = <<>>

\* get_database_id_from_local
get_database_id_from_local(f) ==
  IF f.kind # "file" THEN None
  ELSE LET m == KeySearch(ReadText(f.text))
       IN IF m = None THEN None ELSE Some(Strip(m[1]))

\* a resolver that reads the local file whatever the environment holds
UseLocalAlways(e) == TRUE

\* a resolver that tests the environment value after trimming it
UseLocalTrimmed(e) == Falsy(e) \/ Strip(e[1]) = <<>>

\* the source main() takes the id from: the environment value unless falsy
UseLocal(e) == Falsy(e)

\* a resolver without the two "not found" / "empty" exits
ResolveNoGate ==
  /\ pc = "resolve"
  /\ LET e == IF env.set THEN Some(env.val) ELSE None
         d == IF UseLocal(e) THEN get_database_id_from_local(localFile) ELSE e
     IN /\ source' = IF UseLocal(e) THEN "wrangler.toml.local"
                     ELSE "environment variable"
        /\ warned' = IF UseLocal(e) /\ localFile.kind = "unreadable"
                     THEN {"local_unreadable"} ELSE {}
        /\ db_id' = IF d = None THEN Some(<<>>) ELSE Some(Strip(d[1]))
        /\ pc' = "validate"
  /\ UNCHANGED <<inputs, outFile, exitCode, err, content, substituted_content,
                 lines, output, final_content>>

\* main, lines 47-72: resolve the database id
Resolve ==
  /\ pc = "resolve"
  /\ LET e == IF env.set THEN Some(env.val) ELSE None
         d == IF UseLocal(e) THEN get_database_id_from_local(localFile) ELSE e
     IN /\ source' = IF UseLocal(e) THEN "wrangler.toml.local"
                     ELSE "environment variable"
        /\ warned' = IF UseLocal(e) /\ localFile.kind = "unreadable"
                     THEN {"local_unreadable"} ELSE {}
        /\ IF Falsy(d)
           THEN db_id' = d /\ Fail("not_found")
           ELSE /\ db_id' = Some(Strip(d[1]))
                /\ IF Strip(d[1]) = <<>>
                   THEN Fail("empty")
                   ELSE pc' = "validate" /\ UNCHANGED <<exitCode, err>>
  /\ UNCHANGED <<inputs, outFile, content, substituted_content, lines, output,
                 final_content>>

\* a format check that is fatal
ValidateStrict ==
  /\ pc = "validate"
  /\ IF validate_database_id(db_id[1])
     THEN pc' = "load" /\ UNCHANGED <<exitCode, err, warned>>
     ELSE warned' = warned \cup {"not_uuid"} /\ Fail("not_uuid")
  /\ UNCHANGED <<inputs, outFile, db_id, source, content,
                 substituted_content, lines, output, final_content>>

\* main, lines 74-82: the format check only warns
Validate ==
  /\ pc = "validate"
  /\ warned' = IF validate_database_id(db_id[1]) THEN warned
               ELSE warned \cup {"not_uuid"}
  /\ pc' = "load"
  /\ UNCHANGED <<inputs, outFile, exitCode, err, db_id, source, content,
                 substituted_content, lines, output, final_content>>

\* main, lines 84-98: read wrangler.example.toml
Load ==
  /\ pc = "load"
  /\ IF tmplFile.kind = "missing"
     THEN Fail("template_missing") /\ UNCHANGED content
     ELSE IF tmplFile.kind = "unreadable"
     THEN Fail("template_unreadable") /\ UNCHANGED content
     ELSE /\ content' = ReadText(tmplFile.text)
          /\ pc' = "substitute"
          /\ UNCHANGED <<exitCode, err>>
  /\ UNCHANGED <<inputs, outFile, warned, db_id, source, substituted_content,
                 lines, output, final_content>>

\* a substitution that brings its own quotes
SubstitutedQuoted(c, d) ==
  Replace(c, placeholder, <<QuoteChar>> \o d \o <<QuoteChar>>)

\* main, line 110: content.replace(placeholder, db_id)
Substituted(c, d) == Replace(c, placeholder, d)

\* a substitution without the gate on the token being in the template
SubstituteNoTokenGate ==
  /\ pc = "substitute"
  /\ LET s == Substituted(content, db_id[1])
     IN /\ substituted_content' = s
        /\ IF Contains(s, placeholder)
           THEN Fail("placeholder_left")
           ELSE IF Contains(s, EmptyValueText)
           THEN Fail("empty_after_substitution")
           ELSE pc' = "normalize" /\ UNCHANGED <<exitCode, err>>
  /\ UNCHANGED <<inputs, outFile, warned, db_id, source, content, lines,
                 output, final_content>>

\* main, lines 100-125: placeholder gate, substitution, residue gates
Substitute ==
  /\ pc = "substitute"
  /\ IF ~Contains(content, placeholder)
     THEN Fail("placeholder_missing") /\ UNCHANGED substituted_content
     ELSE LET s == Substituted(content, db_id[1])
          IN /\ substituted_content' = s
             /\ IF Contains(s, placeholder)
                THEN Fail("placeholder_left")
                ELSE IF Contains(s, EmptyValueText)
                THEN Fail("empty_after_substitution")
                ELSE pc' = "normalize" /\ UNCHANGED <<exitCode, err>>
  /\ UNCHANGED <<inputs, outFile, warned, db_id, source, content, lines,
                 output, final_content>>

\* a loop that stops at the first line starting with "database_id = ",
\* parsed or not
CarrierIndexFirstKey(ls) ==
  LET K == {i \in 1..Len(ls) : StartsWith(Strip(ls[i]), KeyPrefix)}
  IN IF K = {} \/ KeySearch(ls[SetMin(K)]) = None THEN 0 ELSE SetMin(K)

\* main, lines 131-135: the line the loop stops at, the first one whose
\* trimmed form starts with "database_id = " and on which the pattern
\* matches; a line that starts so but does not match is passed over.
\* 0 when the loop ends without a match.
RECURSIVE CarrierFrom(_, _)
CarrierFrom(ls, i) ==
  IF i > Len(ls) THEN 0
  ELSE IF StartsWith(Strip(ls[i]), KeyPrefix) /\ KeySearch(ls[i]) # None
       THEN i
       ELSE CarrierFrom(ls, i + 1)
CarrierIndex(ls) == CarrierFrom(ls, 1)

\* main, line 136: db_value of the line the loop stopped at
CarrierValue(line) == Strip(KeySearch(line)[1])

\* a clean line without the quotes
CleanLineUnquoted(line) == Indent(line) \o KeyPrefix \o CarrierValue(line)

\* a clean line without the indentation
CleanLineNoIndent(line) ==
  KeyPrefix \o <<QuoteChar>> \o CarrierValue(line) \o <<QuoteChar>>

\* main, lines 141-146: the clean line
CleanLine(line) ==
  Indent(line) \o KeyPrefix \o <<QuoteChar>> \o CarrierValue(line) \o <<QuoteChar>>

\* a join that never appends the final "\n"
JoinedBare(ls) == Join(ls, LF)

\* main, lines 154-157: join the lines, end the text with "\n"
Joined(ls) ==
  LET o == Join(ls, LF)
  IN IF o # <<>> /\ ~EndsWith(o, LF) THEN o \o LF ELSE o

\* main, lines 127-157: normalise the database_id line
Normalize ==
  /\ pc = "normalize"
  /\ LET ls == SplitLines(substituted_content)
         i == CarrierIndex(ls)
     IN IF i = 0
        THEN lines' = ls /\ Fail("line_not_found") /\ UNCHANGED output
        ELSE IF CarrierValue(ls[i]) = <<>>
        THEN lines' = ls /\ Fail("value_empty") /\ UNCHANGED output
        ELSE /\ lines' = [ls EXCEPT ![i] = CleanLine(ls[i])]
             /\ output' = Joined(lines')
             /\ pc' = "write"
             /\ UNCHANGED <<exitCode, err>>
  /\ UNCHANGED <<inputs, outFile, warned, db_id, source, content,
                 substituted_content, final_content>>

\* what wrangler_toml.write_text(output) and the exists() after it can meet:
\* the write succeeds; open() raises and the file is untouched; open() has
\* truncated the file and write() raises; the file is removed after the write
WriteOutcomes == {"ok", "open_raises", "write_raises", "removed"}

\* main, lines 159-171: write wrangler.toml
Write ==
  /\ pc = "write"
  /\ \E w \in WriteOutcomes :
       CASE w = "ok" ->
              /\ outFile' = [exists |-> TRUE, text |-> output]
              /\ pc' = "verify"
              /\ UNCHANGED <<exitCode, err>>
         [] w = "open_raises" ->
              /\ UNCHANGED outFile
              /\ Fail("write_failed")
         [] w = "write_raises" ->
              /\ outFile' = [exists |-> TRUE, text |-> <<>>]
              /\ Fail("write_failed")
         [] w = "removed" ->
              /\ outFile' = AbsentOut
              /\ Fail("disappeared")
  /\ UNCHANGED <<inputs, warned, db_id, source, content, substituted_content,
                 lines, output, final_content>>

\* main, lines 173-198: read wrangler.toml back and verify it
Verify ==
  /\ pc = "verify"
  /\ \E readable \in BOOLEAN :
       IF ~readable
       THEN Fail("verify_failed") /\ UNCHANGED final_content
       ELSE /\ final_content' = ReadText(outFile.text)
            /\ IF ~FinalPatternFound(final_content')
               THEN Fail("format_verification_failed")
               ELSE IF Contains(final_content', placeholder)
               THEN Fail("placeholder_in_final")
               ELSE pc' = "done" /\ UNCHANGED <<exitCode, err>>
  /\ UNCHANGED <<inputs, outFile, warned, db_id, source, content,
                 substituted_content, lines, output>>

Next ==
  \/ Resolve
  \/ Validate
  \/ Load
  \/ Substitute
  \/ Normalize
  \/ Write
  \/ Verify

Spec == Init /\ [][Next]_vars

\* ================================================================== claims
Terminated == pc \in {"done", "exit"}

\* the run met an I/O failure on wrangler.toml
OutputIOFailed == err \in {"write_failed", "disappeared", "verify_failed"}

\* write_text has returned and the file was still there
Written == pc \in {"verify", "done"} \/
           err \in {"verify_failed", "format_verification_failed",
                    "placeholder_in_final"}

\* Resolve has produced a secret and the run went on with it
Resolved == pc \notin {"resolve"} /\ err \notin {"not_found", "empty"}

TemplateLines == SplitLines(ReadText(tmplFile.text))

\* the lines of a text whose trimmed form starts with "database_id = "
KeyLines(ls) == {i \in 1..Len(ls) : StartsWith(Strip(ls[i]), KeyPrefix)}

\* "database_id = "v"" between quotes
Quoted(v) == KeyPrefix \o <<QuoteChar>> \o v \o <<QuoteChar>>

\* some line of t is, after its indentation, exactly database_id = "v"
HasQuotedLine(t, v) ==
  \E i \in 1..Len(SplitLines(t)) :
    SplitLines(t)[i] = Indent(SplitLines(t)[i]) \o Quoted(v)

\* the secret is UUID-shaped and the template holds the token exactly once
C1_Case ==
  /\ Resolved
  /\ validate_database_id(db_id[1])
  /\ tmplFile.kind = "file"
  /\ Count(tmplFile.text, placeholder) = 1

C1_Result ==
  /\ pc = "done"
  /\ exitCode = 0
  /\ outFile.exists
  /\ ~Contains(outFile.text, placeholder)
  /\ HasQuotedLine(outFile.text, db_id[1])

\* C1 as stated: for every UUID-shaped secret and every template with exactly
\* one occurrence of the token, a run whose file I/O succeeds ends with exit
\* status 0 and an output without the token and with the line
\* database_id = "<secret>".
C1_AsStated ==
  (Terminated /\ ~OutputIOFailed /\ C1_Case) => C1_Result

\* the one token is the quoted value of the first line whose trimmed form
\* starts with "database_id = ", and the template has no database_id = ""
C1_CarrierFirst ==
  /\ KeyLines(TemplateLines) # {}
  /\ StartsWith(Strip(TemplateLines[SetMin(KeyLines(TemplateLines))]),
                Quoted(placeholder))
  /\ ~Contains(tmplFile.text, EmptyValueText)

\* C1 amended: for every UUID-shaped secret and every template whose only
\* occurrence of the token is the quoted value of its first
\* "database_id = " line, and which has no text database_id = "", a run
\* whose file I/O succeeds ends with exit status 0 and an output without the
\* token and with the line database_id = "<secret>".
C1_Amended ==
  (Terminated /\ ~OutputIOFailed /\ C1_Case /\ C1_CarrierFirst) => C1_Result

C1_Witness ==
  /\ pc = "done"
  /\ C1_Case
  /\ C1_CarrierFirst
  /\ Len(TemplateLines) > 1
  /\ HasQuotedLine(outFile.text, UuidEnv)

\* the environment value is present and non-empty
EnvPresent == env.set /\ env.val # <<>>

\* the local file yields a value
LocalPresent == get_database_id_from_local(localFile) \notin {None, Some(<<>>)}

\* C2: in all four combinations of the environment value and the local-file
\* value being present or absent, a present, non-empty environment value is
\* the one the run resolves (trimmed) and substitutes, and the local-file
\* value is used only when the environment value is absent or empty.
C2_EnvPrecedence ==
  (pc # "resolve") =>
    /\ EnvPresent =>
         /\ source = "environment variable"
         /\ db_id = Some(Strip(env.val))
         /\ (pc \in {"normalize", "write", "verify", "done"}) =>
              /\ Contains(substituted_content, Strip(env.val))
              /\ LocalPresent /\ ~Contains(content, UuidLocal) =>
                   ~Contains(substituted_content, UuidLocal)
    /\ (source = "wrangler.toml.local") =>
         /\ ~EnvPresent
         /\ Resolved => (LocalPresent /\
                         db_id = get_database_id_from_local(localFile))

C2_Witness ==
  /\ pc = "done"
  /\ EnvPresent
  /\ LocalPresent
  /\ db_id # get_database_id_from_local(localFile)
  /\ HasQuotedLine(outFile.text, UuidEnv)

\* neither source provides a value
C3_NoSource ==
  /\ ~EnvPresent
  /\ \/ localFile.kind \in {"missing", "unreadable"}
     \/ KeySearch(ReadText(localFile.text)) = None
     \/ Strip(KeySearch(ReadText(localFile.text))[1]) = <<>>

\* C3: if neither source provides a value, the run exits with status 1 at
\* the resolver and wrangler.toml is never written.
C3_NoSourceExits ==
  /\ [](C3_NoSource /\ pc # "resolve" =>
          pc = "exit" /\ exitCode = 1 /\ err = "not_found")
  /\ [][C3_NoSource => outFile' = outFile]_vars

C3_Witness ==
  /\ C3_NoSource
  /\ pc = "exit"
  /\ env = EnvSet(<<>>)
  /\ localFile.kind = "file"
  /\ KeySearch(localFile.text) # None
  /\ outFile = StaleOut

\* the template text lacks the token
C4_NoToken == tmplFile.kind = "file" /\ ~Contains(tmplFile.text, placeholder)

\* C4: if the template lacks the token, then for every resolved secret the
\* run exits with status 1 before the write step: wrangler.toml is neither
\* created nor changed.
C4_NoTokenExits ==
  /\ [](C4_NoToken =>
          /\ pc \in {"resolve", "validate", "load", "substitute", "exit"}
          /\ pc = "exit" => exitCode = 1
          /\ pc = "exit" /\ Resolved => err = "placeholder_missing")
  /\ [][C4_NoToken => outFile' = outFile]_vars

C4_Witness ==
  /\ C4_NoToken
  /\ pc = "exit"
  /\ err = "placeholder_missing"
  /\ outFile = StaleOut
  /\ KeyLines(TemplateLines) # {}

\* a line of the form database_id = "<non-empty-value>"
IsValueLine(line) ==
  LET t == Strip(line)
  IN /\ StartsWith(t, KeyPrefix \o <<QuoteChar>>)
     /\ Len(t) > Len(KeyPrefix) + 2
     /\ \A k \in 1..Len(t) :
          t[k] = QuoteChar <=> k \in {Len(KeyPrefix) + 1, Len(t)}

\* C5: every text a run writes to wrangler.toml has no occurrence of the
\* token and at least one line database_id = "<non-empty-value>", and the
\* verification of the file read back never fails.
C5_WrittenTextVerifies ==
  Written =>
    /\ ~Contains(outFile.text, placeholder)
    /\ \E i \in 1..Len(SplitLines(outFile.text)) :
         IsValueLine(SplitLines(outFile.text)[i])
    /\ err \notin {"format_verification_failed", "placeholder_in_final"}

C5_Witness ==
  /\ pc = "done"
  /\ ~validate_database_id(db_id[1])
  /\ Len(SplitLines(outFile.text)) > 1
  /\ Contains(content, <<" "," ","#"," ","i","d">>)

\* the template's carrier line is database_id = "${D1_DATABASE_ID}": it is
\* the only line that mentions database_id and the only place of the token
C6_CarrierTemplate ==
  /\ tmplFile.kind = "file"
  /\ Count(tmplFile.text, placeholder) = 1
  /\ \E i \in 1..Len(TemplateLines) :
       /\ Strip(TemplateLines[i]) = Quoted(placeholder)
       /\ \A j \in 1..Len(TemplateLines) :
            Contains(TemplateLines[j], KeyName) => j = i

\* the resolved secret is non-empty, trimmed and not UUID-shaped
C6_NonUuidSecret == Resolved /\ ~validate_database_id(db_id[1])

C6_Result ==
  /\ "not_uuid" \in warned
  /\ pc = "done"
  /\ exitCode = 0
  /\ HasQuotedLine(outFile.text, db_id[1])

\* C6 as stated: for every non-empty trimmed secret that is not UUID-shaped
\* and a template whose carrier line is database_id = "${D1_DATABASE_ID}",
\* the run only warns, exits with status 0 and the output carrier line
\* carries the secret as its quoted value.
C6_AsStated ==
  (Terminated /\ ~OutputIOFailed /\ C6_NonUuidSecret /\ C6_CarrierTemplate)
    => C6_Result

\* the secret has no double quote, no line boundary and not the token
C6_PlainSecret ==
  /\ \A k \in 1..Len(db_id[1]) :
       db_id[1][k] # QuoteChar /\ db_id[1][k] \notin LineBreakChars
  /\ ~Contains(db_id[1], placeholder)

\* C6 amended: for every non-empty trimmed secret that is not UUID-shaped and
\* contains no double quote, no line boundary and not the token itself, and
\* a template whose carrier line is database_id = "${D1_DATABASE_ID}", the
\* run only warns, exits with status 0 and the output carrier line carries
\* the secret as its quoted value.
C6_Amended ==
  (Terminated /\ ~OutputIOFailed /\ C6_NonUuidSecret /\ C6_PlainSecret
     /\ C6_CarrierTemplate) => C6_Result

C6_Witness ==
  /\ pc = "done"
  /\ C6_NonUuidSecret
  /\ C6_PlainSecret
  /\ C6_CarrierTemplate
  /\ "not_uuid" \in warned
  /\ HasQuotedLine(outFile.text, <<"n","o","t","-","a","-","u","u","i","d">>)

\* D1_DATABASE_ID is set to whitespace only and the local file has an id
C7_Case ==
  /\ pc # "resolve"
  /\ EnvPresent
  /\ Strip(env.val) = <<>>
  /\ LocalPresent

\* C7 as stated: when D1_DATABASE_ID is whitespace-only and the local file
\* contains a valid database_id, the resolver uses the local-file value
\* rather than failing.
C7_AsStated ==
  C7_Case =>
    /\ source = "wrangler.toml.local"
    /\ db_id = get_database_id_from_local(localFile)
    /\ err \notin {"not_found", "empty"}

\* C7 amended: the environment variable takes precedence whenever it is set
\* and non-empty before trimming: when D1_DATABASE_ID is whitespace-only the
\* local file is not consulted, even if it contains a valid database_id, and
\* the run exits with status 1 reporting an empty database_id.
C7_Amended ==
  C7_Case =>
    /\ source = "environment variable"
    /\ db_id = Some(<<>>)
    /\ pc = "exit" /\ exitCode = 1 /\ err = "empty"

C7_Witness ==
  /\ C7_Case
  /\ pc = "exit"
  /\ err = "empty"
  /\ localFile = LocalUuidFile

\* the number of characters of s, counted from its end, that are all in cs
RECURSIVE TrailingIn(_, _)
TrailingIn(s, cs) ==
  IF Len(s) = 0 \/ s[Len(s)] \notin cs THEN 0
  ELSE 1 + TrailingIn(SubSeq(s, 1, Len(s) - 1), cs)

\* C8 as stated: for every template that passes all gates, whatever number
\* of trailing newlines it ends with, the text written ends with exactly one
\* newline character.
C8_AsStated ==
  (pc = "done") => TrailingIn(outFile.text, {"\n"}) = 1

\* C8 amended: for every template that passes all gates, the text written
\* ends with at least one newline character: with exactly one when the
\* template ends with at most two line terminators, and with n - 1 when it
\* ends with n >= 3 of them.
C8_Amended ==
  (pc = "done") =>
    LET n == TrailingIn(content, LineBreakChars)
    IN TrailingIn(outFile.text, {"\n"}) = IF n <= 2 THEN 1 ELSE n - 1

C8_Witness ==
  /\ pc = "done"
  /\ TrailingIn(content, LineBreakChars) = 3
  /\ TrailingIn(outFile.text, {"\n"}) = 2

\* the normalizer has run on the substituted text
Normalized ==
  pc \in {"write", "verify", "done"} \/
  err \in {"line_not_found", "value_empty", "write_failed", "disappeared",
           "verify_failed", "format_verification_failed",
           "placeholder_in_final"}

\* the normalizer has failed and nothing was written
NormalizerFailed ==
  /\ pc = "exit"
  /\ exitCode = 1
  /\ err \in {"line_not_found", "value_empty"}
  /\ outFile \in OldOutputs

SubstitutedLines == SplitLines(substituted_content)

\* the pattern database_id = "<value>" is on the line
Parses(line) == \E i \in 1..Len(line) : KeyMatchAt(line, i) # <<0, 0>>

\* C9 as stated: the normalizer acts on the first line whose trimmed form
\* starts with "database_id = "; if that line has an empty value or cannot
\* be parsed, or if there is no such line, the run fails with status 1 and
\* writes nothing, even when a later line is well-formed.
C9_AsStated ==
  (Normalized /\
     (\/ KeyLines(SubstitutedLines) = {}
      \/ LET l == SubstitutedLines[SetMin(KeyLines(SubstitutedLines))]
         IN ~Parses(l) \/ Strip(KeySearch(l)[1]) = <<>>))
    => NormalizerFailed

\* the "database_id = " lines on which the pattern matches
ParsedKeyLines(ls) == {i \in KeyLines(ls) : Parses(ls[i])}

\* C9 amended: the normalizer acts on the first line whose trimmed form
\* starts with "database_id = " and on which the pattern
\* database_id = "<value>" matches, passing over earlier lines that start so
\* but cannot be parsed; if that line's trimmed value is empty the run fails
\* with status 1 and writes nothing, even when a later line is well-formed;
\* it also fails so when no such line exists; otherwise it rewrites that
\* line and the run goes on to the write.
C9_Amended ==
  Normalized =>
    LET P == ParsedKeyLines(SubstitutedLines)
    IN IF P = {}
       THEN NormalizerFailed /\ err = "line_not_found"
       ELSE IF Strip(KeySearch(SubstitutedLines[SetMin(P)])[1]) = <<>>
       THEN NormalizerFailed /\ err = "value_empty"
       ELSE /\ err \notin {"line_not_found", "value_empty"}
            /\ IsValueLine(lines[SetMin(P)])

\* a first, unparsable database_id line was passed over and a later one used
C9_Witness ==
  /\ pc = "done"
  /\ KeyLines(SubstitutedLines) # {}
  /\ ~Parses(SubstitutedLines[SetMin(KeyLines(SubstitutedLines))])
  /\ IsValueLine(lines[2])

\* the substituted text with its first parsed database_id line rewritten as
\* <indent>database_id = "<trimmed value>"
C10_Expected ==
  LET k == SetMin(ParsedKeyLines(SubstitutedLines))
      l == SubstitutedLines[k]
  IN [SubstitutedLines EXCEPT ![k] = Indent(l) \o Quoted(Strip(KeySearch(l)[1]))]

\* C10 as stated: on every successful run exactly one line, the first carrier
\* line, is rewritten as <indent>database_id = "<value>", and every other
\* line of the substituted text is in the output with identical content and
\* in the same order.
C10_AsStated ==
  (pc = "done") => SplitLines(outFile.text) = C10_Expected

\* ls without its last line when that line is empty
DropFinalEmpty(ls) ==
  IF Len(ls) > 0 /\ ls[Len(ls)] = <<>> THEN SubSeq(ls, 1, Len(ls) - 1) ELSE ls

\* C10 amended: on every successful run exactly one line, the first carrier
\* line, is rewritten as <indent>database_id = "<value>", and every other
\* line of the substituted text is in the output with identical content and
\* in the same order, except that a final empty line of the substituted text
\* (a text ending with two or more line terminators) is not in the output.
C10_Amended ==
  (pc = "done") => SplitLines(outFile.text) = DropFinalEmpty(C10_Expected)

C10_Witness ==
  /\ pc = "done"
  /\ Len(SubstitutedLines) = 2
  /\ Cardinality(ParsedKeyLines(SubstitutedLines)) = 2
  /\ SubstitutedLines[1] # lines[1]
  /\ SubstitutedLines[2] = lines[2]
  /\ SplitLines(outFile.text) = lines

====
